---- MODULE Spec2Model ----
(***************************************************************************)
(* A model of mazeforge's Maze class (src/mazeforge/Maze.py): the tile     *)
(* grid, the two formation algorithms, boundary placement, braiding and    *)
(* the exports, and of generate_maze (src/mazeforge/maze_generator.py).    *)
(*                                                                         *)
(* Representation.                                                         *)
(*  - A tile is named by its position <<x, y>> (coordinateX, coordinateY). *)
(*    mazeList is a function from positions to tile records; the Python    *)
(*    mazeList[y][x] is mazeList[<<x, y>>] here.  Before a formation call  *)
(*    mazeList is the empty list, here the function with empty domain.     *)
(*  - Python lists are sequences (1-based): choiceList, the candidate      *)
(*    lists of __makeEntryandExit, the rows of an exported grid.           *)
(*  - tile.connectTo is a bag (a list up to the order of its members, the  *)
(*    number of occurrences kept).  The code reads the order of connectTo  *)
(*    only as connectTo[0] of a list of length one; its other uses (len,   *)
(*    membership, append, one remove from directionList per member, one    *)
(*    cell written per member) do not depend on the order.                 *)
(*  - frontList of makeMazeSimple is a set: the code shuffles it before    *)
(*    every read of its order (shuffle, then pop), so only its members are *)
(*    ever observed.                                                       *)
(*  - A draw of rnd.random() * 100 is a real in [0, 100).  Weights are     *)
(*    integers, so a draw is modelled in half units: draw d stands for the *)
(*    real d / 2, and "w >= draw" is 2 * w >= d.                           *)
(*  - rnd.choice and rnd.shuffle are nondeterministic choices (\E) under  *)
(*    Spec and FairFormSpec.  Under GenSpec the draws come from a seeded   *)
(*    generator (rndState), so that a seed fixes the maze.                 *)
(*  - Each public method is a sequence of atomic steps ordered by pc: the  *)
(*    entry step (argument and state checks, set-up), one step per loop    *)
(*    iteration, and the final step.  The program is single-threaded, so   *)
(*    no other method starts while pc # "idle".                            *)
(***************************************************************************)
EXTENDS Integers, Sequences, FiniteSets, Bags, TLC

\* Largest dimensionX / dimensionY / number of tiles of the mazes explored.
MaxSizeX == 2
MaxSizeY == 3
MaxTiles == 6
\* Largest width and height, largest seed and number of calls of generate_maze explored.
GenMaxSize == 3
MaxSeed == 1
MaxCalls == 2

VARIABLES
    sizeX,          \* Maze.sizeX
    sizeY,          \* Maze.sizeY
    start_wall,     \* Maze.start_wall
    end_wall,       \* Maze.end_wall
    mazeIsDone,     \* Maze.__mazeIsDone
    mazeList,       \* Maze.mazeList
    pc,             \* position of the running method, "idle" between calls
    frontList,      \* local of makeMazeSimple
    choiceList,     \* local of makeMazeGrowTree
    weightHigh,     \* argument of makeMazeGrowTree
    weightLow,      \* argument of makeMazeGrowTree
    weightBraid,    \* argument of makeMazeBraided
    tileIndex,      \* position of makeMazeBraided's loop over the tiles
    ret,            \* what the last finished call returned or raised
    rndState,       \* state of the module-wide generator rnd (import random as rnd)
    genCall,        \* arguments and locals of the last generate_maze call
    firstRun        \* the first completed generate_maze call and what it returned

vars == <<sizeX, sizeY, start_wall, end_wall, mazeIsDone, mazeList, pc,
          frontList, choiceList, weightHigh, weightLow, weightBraid,
          tileIndex, ret, rndState, genCall, firstRun>>

locals == <<frontList, choiceList, weightHigh, weightLow, weightBraid, tileIndex>>
config == <<sizeX, sizeY, start_wall, end_wall>>
generator == <<rndState, genCall, firstRun>>

----------------------------------------------------------------------------
(* Values *)

Walls == {"N", "S", "W", "E", "Any"}
\* The (start_wall, end_wall) settings explored: the default of __init__, and
\* two that name all four specific walls.  "Any" offers every border tile, so
\* every placement some setting allows is a placement of <<"Any", "Any">>.
WallPairs == {<<"Any", "Any">>, <<"N", "S">>, <<"W", "E">>}

\* is_entry: None / True / False
NoneRole == "None"
EntryRole == "True"
ExitRole == "False"

\* Weight pairs (weightHigh, weightLow) tried for makeMazeGrowTree: the
\* default, the random and the oldest-first extremes of the docstring, and
\* the nearest integers outside 0..100.
GrowWeights == {<<99, 97>>, <<100, 0>>, <<0, 0>>, <<101, -1>>}
\* weightBraid values tried: every behaviour class of -1..100 and the two
\* nearest integers outside the range.
BraidWeights == {-2, -1, 0, 50, 100, 101}
\* Draws of rnd.random() * 100, in half units (0, 0.5, 1, ..., 99.5).
Draws == {0, 1, 100, 101, 194, 195, 198, 199}

Range(s) == {s[i] : i \in DOMAIN s}

\* The return values and exceptions of the public methods.
NoReturn == [kind |-> "none", errorcode |-> 0, grid |-> <<>>]
ReturnTrue == [kind |-> "True", errorcode |-> 0, grid |-> <<>>]
MazeError(code) == [kind |-> "MazeError", errorcode |-> code, grid |-> <<>>]
ReturnList(g) == [kind |-> "list", errorcode |-> 0, grid |-> g]
\* An exception that is not a MazeError (IndexError, ValueError).
PyError(name) == [kind |-> name, errorcode |-> 0, grid |-> <<>>]

\* No generate_maze call was made: the Maze object is used directly.
NoCall == [algorithm |-> "none", stage |-> "returned", calls |-> 0]
NoRun == [call |-> NoCall, ret |-> NoReturn]

\* __MazeTile.__init__
MazeTile(X, Y) ==
    [workedOn |-> FALSE, coordinateX |-> X, coordinateY |-> Y,
     connectTo |-> EmptyBag, is_entry |-> NoneRole]

\* The nested loop that fills mazeList at the start of both formation methods.
NewMazeList ==
    [t \in (0..sizeX-1) \X (0..sizeY-1) |-> MazeTile(t[1], t[2])]

Tiles == DOMAIN mazeList

\* The position a direction points to (used by the directed connect, the
\* distance search and the exporters).
Step(t, d) ==
    CASE d = "N" -> <<t[1], t[2] - 1>>
      [] d = "S" -> <<t[1], t[2] + 1>>
      [] d = "W" -> <<t[1] - 1, t[2]>>
      [] d = "E" -> <<t[1] + 1, t[2]>>

Opposite(d) ==
    CASE d = "N" -> "S"
      [] d = "S" -> "N"
      [] d = "W" -> "E"
      [] d = "E" -> "W"

\* Maze.__getNextTiles: the neighbours that exist, in the order N, S, W, E.
getNextTiles(X, Y) ==
    (IF Y = 0 THEN <<>> ELSE <<(<<X, Y - 1>>)>>)
    \o (IF Y + 1 < sizeY THEN <<(<<X, Y + 1>>)>> ELSE <<>>)
    \o (IF X = 0 THEN <<>> ELSE <<(<<X - 1, Y>>)>>)
    \o (IF X + 1 < sizeX THEN <<(<<X + 1, Y>>)>> ELSE <<>>)

\* tile.connectTo.append(d)
Append1(ml, t, d) ==
    [ml EXCEPT ![t].connectTo = @ (+) SetToBag({d})]

\* __connectTiles without its "elif Y1 > Y2" branch.
connectTiles_NoNorth(ml, tileA, tileB) ==
    LET X1 == tileA[1]
        Y1 == tileA[2]
        X2 == tileB[1]
        Y2 == tileB[2]
    IN  IF X1 = X2
        THEN IF Y1 < Y2 THEN Append1(Append1(ml, tileA, "S"), tileB, "N")
             ELSE ml
        ELSE IF X1 < X2 THEN Append1(Append1(ml, tileA, "E"), tileB, "W")
             ELSE Append1(Append1(ml, tileA, "W"), tileB, "E")

\* Maze.__connectTiles
connectTiles(ml, tileA, tileB) ==
    LET X1 == tileA[1]
        Y1 == tileA[2]
        X2 == tileB[1]
        Y2 == tileB[2]
    IN  IF X1 = X2
        THEN IF Y1 < Y2 THEN Append1(Append1(ml, tileA, "S"), tileB, "N")
             ELSE IF Y1 > Y2 THEN Append1(Append1(ml, tileA, "N"), tileB, "S")
             ELSE ml
        ELSE IF X1 < X2 THEN Append1(Append1(ml, tileA, "E"), tileB, "W")
             ELSE Append1(Append1(ml, tileA, "W"), tileB, "E")

\* The IndexError cases without the test "tile.coordinateX == 0".
connectRaises_NoWestTest(tile, direction) ==
    CASE direction = "N" -> tile[2] = 0
      [] direction = "S" -> ~(tile[2] + 1 < sizeY)
      [] direction = "W" -> FALSE
      [] direction = "E" -> ~(tile[1] + 1 < sizeX)

\* Maze.__connectTilesWithString raises errorcode 2: the IndexError cases.
connectRaises(tile, direction) ==
    CASE direction = "N" -> tile[2] = 0
      [] direction = "S" -> ~(tile[2] + 1 < sizeY)
      [] direction = "W" -> tile[1] = 0
      [] direction = "E" -> ~(tile[1] + 1 < sizeX)

\* __connectTilesWithString that appends to the given tile only.
connectTilesWithString_OneSided(ml, tile, direction) ==
    Append1(ml, tile, direction)

\* __connectTilesWithString that assigns the tile's list instead of appending.
connectTilesWithString_Overwrite(ml, tile, direction) ==
    [Append1(ml, Step(tile, direction), Opposite(direction))
        EXCEPT ![tile].connectTo = SetToBag({direction})]

\* Maze.__connectTilesWithString when it returns True.
connectTilesWithString(ml, tile, direction) ==
    Append1(Append1(ml, Step(tile, direction), Opposite(direction)), tile, direction)

----------------------------------------------------------------------------
(* Maze.__init__ *)

Init ==
    /\ sizeX \in 1..MaxSizeX
    /\ sizeY \in 1..MaxSizeY
    /\ sizeX * sizeY <= MaxTiles
    /\ \E walls \in WallPairs :
          /\ start_wall = walls[1]
          /\ end_wall = walls[2]
    /\ mazeIsDone = FALSE
    /\ mazeList = <<>>
    /\ pc = "idle"
    /\ frontList = {}
    /\ choiceList = <<>>
    /\ weightHigh = 0
    /\ weightLow = 0
    /\ weightBraid = 0
    /\ tileIndex = 0
    /\ ret = NoReturn
    /\ rndState = 0
    /\ genCall = NoCall
    /\ firstRun = NoRun

\* The locals of a method are dropped when it returns or raises.
DropLocals ==
    /\ frontList' = {}
    /\ choiceList' = <<>>
    /\ weightHigh' = 0
    /\ weightLow' = 0
    /\ weightBraid' = 0
    /\ tileIndex' = 0

----------------------------------------------------------------------------
(* Maze.__makeEntryandExit *)

\* [(x, 0) for x in range(lo, hi)], and the same for the other three walls;
\* range(lo, hi) is empty when hi <= lo.
TopTiles(lo, hi) ==
    IF hi <= lo THEN <<>> ELSE [i \in 1..(hi - lo) |-> <<lo + i - 1, 0>>]
BottomTiles(lo, hi) ==
    IF hi <= lo THEN <<>> ELSE [i \in 1..(hi - lo) |-> <<lo + i - 1, sizeY - 1>>]
LeftTiles(lo, hi) ==
    IF hi <= lo THEN <<>> ELSE [i \in 1..(hi - lo) |-> <<0, lo + i - 1>>]
RightTiles(lo, hi) ==
    IF hi <= lo THEN <<>> ELSE [i \in 1..(hi - lo) |-> <<sizeX - 1, lo + i - 1>>]

\* get_wall_tiles, the helper of __makeEntryandExit
get_wall_tiles(wall) ==
    CASE wall = "N" -> TopTiles(0, sizeX)
      [] wall = "S" -> BottomTiles(0, sizeX)
      [] wall = "W" -> LeftTiles(0, sizeY)
      [] wall = "E" -> RightTiles(0, sizeY)
      [] OTHER -> TopTiles(0, sizeX)
                  \o BottomTiles(0, sizeX)
                  \o LeftTiles(1, sizeY - 1)
                  \o RightTiles(1, sizeY - 1)

\* The column tests made before the row tests.
OutwardDirection_ColumnsFirst(pos) ==
    IF pos[1] = 0 THEN "W"
    ELSE IF pos[1] = sizeX - 1 THEN "E"
    ELSE IF pos[2] = 0 THEN "N"
    ELSE "S"

\* The row tests with "N" and "S" exchanged.
OutwardDirection_Swapped(pos) ==
    IF pos[2] = 0 THEN "S"
    ELSE IF pos[2] = sizeY - 1 THEN "N"
    ELSE IF pos[1] = 0 THEN "W"
    ELSE "E"

\* The direction appended to the entry (exit) tile: rows are tested first.
OutwardDirection(pos) ==
    IF pos[2] = 0 THEN "N"
    ELSE IF pos[2] = sizeY - 1 THEN "S"
    ELSE IF pos[1] = 0 THEN "W"
    ELSE "E"

\* "Set entry point" / "Set exit point" without the append to connectTo.
SetBoundary_NoOpening(ml, pos, role) ==
    [ml EXCEPT ![pos].is_entry = role]

\* "Set entry point" / "Set exit point"
SetBoundary(ml, pos, role) ==
    [ml EXCEPT ![pos].is_entry = role,
               ![pos].connectTo = @ (+) SetToBag({OutwardDirection(pos)})]

\* __makeEntryandExit without the redraw loop: the first pair drawn is used.
makeEntryandExit_NoRedraw ==
    /\ \/ pc = "simple" /\ frontList = {}
       \/ pc = "growtree" /\ choiceList = <<>>
    /\ \E entry_pos \in Range(get_wall_tiles(start_wall)),
          exit_pos \in Range(get_wall_tiles(end_wall)) :
          /\ mazeList' = SetBoundary(SetBoundary(mazeList, entry_pos, EntryRole),
                                     exit_pos, ExitRole)
          /\ mazeIsDone' = TRUE
          /\ pc' = "idle"
          /\ ret' = ReturnTrue
          /\ DropLocals
          /\ UNCHANGED config

\* The last step of both formation methods: one pass of the redraw loop, and
\* when the two draws differ, the placement, __mazeIsDone = True, return True.
makeEntryandExit ==
    /\ \/ pc = "simple" /\ frontList = {}
       \/ pc = "growtree" /\ choiceList = <<>>
    /\ \E entry_pos \in Range(get_wall_tiles(start_wall)),
          exit_pos \in Range(get_wall_tiles(end_wall)) :
          IF entry_pos = exit_pos
          THEN UNCHANGED vars
          ELSE /\ mazeList' = SetBoundary(SetBoundary(mazeList, entry_pos, EntryRole),
                                          exit_pos, ExitRole)
               /\ mazeIsDone' = TRUE
               /\ pc' = "idle"
               /\ ret' = ReturnTrue
               /\ DropLocals
               /\ UNCHANGED config

----------------------------------------------------------------------------
(* Maze.makeMazeSimple *)

\* makeMazeSimple without the AlreadyFormed check.
makeMazeSimple_NoCheck ==
    /\ pc = "idle"
    /\ \E startingtile \in DOMAIN NewMazeList :
            /\ mazeList' = [NewMazeList EXCEPT ![startingtile].workedOn = TRUE]
            /\ frontList' = Range(getNextTiles(startingtile[1], startingtile[2]))
            /\ pc' = "simple"
            /\ UNCHANGED <<config, mazeIsDone, choiceList, weightHigh, weightLow,
                           weightBraid, tileIndex, ret>>

\* The call: the AlreadyFormed check, the tile grid, the starting tile and
\* the first frontier.
makeMazeSimple ==
    /\ pc = "idle"
    /\ IF mazeIsDone
       THEN /\ ret' = MazeError(3)
            /\ UNCHANGED <<config, mazeIsDone, mazeList, pc, locals>>
       ELSE \E startingtile \in DOMAIN NewMazeList :
            /\ mazeList' = [NewMazeList EXCEPT ![startingtile].workedOn = TRUE]
            /\ frontList' = Range(getNextTiles(startingtile[1], startingtile[2]))
            /\ pc' = "simple"
            /\ UNCHANGED <<config, mazeIsDone, choiceList, weightHigh, weightLow,
                           weightBraid, tileIndex, ret>>

\* One iteration of "while len(frontList) > 0".
SimpleLoop ==
    /\ pc = "simple"
    /\ frontList # {}
    /\ \E nextTile \in frontList :
       LET popped == frontList \ {nextTile}
           ml1 == [mazeList EXCEPT ![nextTile].workedOn = TRUE]
           tempList == getNextTiles(nextTile[1], nextTile[2])
           IsWorkedOn(t) == ml1[t].workedOn
           workedOnList == SelectSeq(tempList, IsWorkedOn)
           newFrontTiles == {t \in Range(tempList) : ~ml1[t].workedOn /\ t \notin popped}
       IN  IF Len(workedOnList) = 0
           THEN \* workedOnList[0] raises IndexError
                /\ mazeList' = ml1
                /\ pc' = "idle"
                /\ ret' = PyError("IndexError")
                /\ DropLocals
                /\ UNCHANGED <<config, mazeIsDone>>
           ELSE \E connectTile \in Range(workedOnList) :
                /\ mazeList' = connectTiles(ml1, nextTile, connectTile)
                /\ frontList' = popped \cup newFrontTiles
                /\ UNCHANGED <<config, mazeIsDone, pc, choiceList, weightHigh,
                               weightLow, weightBraid, tileIndex, ret>>

----------------------------------------------------------------------------
(* Maze.makeMazeGrowTree *)

\* The call: the AlreadyFormed check, the tile grid and the starting tile.
makeMazeGrowTree(wHigh, wLow) ==
    /\ pc = "idle"
    /\ IF mazeIsDone
       THEN /\ ret' = MazeError(3)
            /\ UNCHANGED <<config, mazeIsDone, mazeList, pc, locals>>
       ELSE \E startingtile \in DOMAIN NewMazeList :
            /\ mazeList' = [NewMazeList EXCEPT ![startingtile].workedOn = TRUE]
            /\ choiceList' = <<startingtile>>
            /\ weightHigh' = wHigh
            /\ weightLow' = wLow
            /\ pc' = "growtree"
            /\ UNCHANGED <<config, mazeIsDone, frontList, weightBraid, tileIndex, ret>>

\* The tiles the selection rule can yield for draw d (half units).
NextTileChoices(d) ==
    IF d <= 2 * weightLow THEN {choiceList[Len(choiceList)]}
    ELSE IF 2 * weightLow < d /\ d < 2 * weightHigh THEN Range(choiceList)
    ELSE {choiceList[1]}

\* The tiles an iteration can select, over every draw.
SelectableTiles == UNION {NextTileChoices(d) : d \in Draws}

\* list.remove(x): drops the first occurrence of x.
ListRemove(s, x) ==
    LET k == CHOOSE i \in 1..Len(s) : s[i] = x /\ \A j \in 1..(i - 1) : s[j] # x
    IN  [i \in 1..(Len(s) - 1) |-> IF i < k THEN s[i] ELSE s[i + 1]]

\* One iteration of "while len(choiceList) > 0".
GrowTreeLoop ==
    /\ pc = "growtree"
    /\ choiceList # <<>>
    /\ \E nextTile \in SelectableTiles :
       LET NotWorkedOn(t) == ~mazeList[t].workedOn
           neiList == SelectSeq(getNextTiles(nextTile[1], nextTile[2]), NotWorkedOn)
       IN  IF Len(neiList) = 0
           THEN /\ choiceList' = ListRemove(choiceList, nextTile)
                /\ UNCHANGED mazeList
           ELSE \E connectTile \in Range(neiList) :
                /\ choiceList' = Append(choiceList, connectTile)
                /\ mazeList' = connectTiles(
                       [mazeList EXCEPT ![connectTile].workedOn = TRUE],
                       nextTile, connectTile)
    /\ UNCHANGED <<config, mazeIsDone, pc, frontList, weightHigh, weightLow,
                   weightBraid, tileIndex, ret>>

----------------------------------------------------------------------------
(* Maze.makeMazeBraided *)

\* rnd.shuffle(s): every ordering of a list of distinct members.
Shuffles(s) ==
    {p \in [1..Len(s) -> Range(s)] : \A i, j \in 1..Len(s) : i # j => p[i] # p[j]}

\* The loop with "break" after the try statement: only the first direction
\* is tried.
TryDirections_FirstOnly(ml, tile, directionList) ==
    IF directionList = <<>> THEN ml
    ELSE IF connectRaises(tile, Head(directionList)) THEN ml
         ELSE connectTilesWithString(ml, tile, Head(directionList))

\* "for direction in directionList: try connect, break; except errorcode 2: pass"
RECURSIVE TryDirections(_, _, _)
TryDirections(ml, tile, directionList) ==
    IF directionList = <<>> THEN ml
    ELSE IF connectRaises(tile, Head(directionList))
         THEN TryDirections(ml, tile, Tail(directionList))
         ELSE connectTilesWithString(ml, tile, Head(directionList))

\* The loop over the tile's connections removing nothing from directionList.
RemoveAll_KeepsAll(directionList, connections) == directionList

\* directionList.remove(connection) for every connection of the tile.
RemoveAll(directionList, connections) ==
    LET NotConnected(d) == ~BagIn(d, connections)
    IN  SelectSeq(directionList, NotConnected)

\* directionList.remove(connection) raises ValueError: a connection is listed
\* twice, and the second remove does not find it.
RemoveRaises(connections) ==
    \E d \in BagToSet(connections) : CopiesIn(d, connections) > 1

\* rnd.shuffle(directionList), then the loop over it: the grids it can leave.
ShuffleAndTry(ml, tile, directionList) ==
    {TryDirections(ml, tile, shuffled) : shuffled \in Shuffles(directionList)}

\* "weightBraid >= (rnd.random() * 100)" for draw d (half units)
BraidDraw(w, d) == 2 * w >= d

AllDirections == <<"N", "S", "W", "E">>

\* connectTo[0] of a list of length one
OnlyMember(connections) == CHOOSE d \in BagToSet(connections) : TRUE

\* The tile the double loop "for row in mazeList: for tile in row" visits k-th.
TileAt(k) == <<k % sizeX, k \div sizeX>>

\* makeMazeBraided without the "weightBraid > 100" test.
makeMazeBraided_NoUpperBound(w) ==
    /\ pc = "idle"
    /\ IF ~mazeIsDone
       THEN /\ ret' = MazeError(4)
            /\ UNCHANGED <<config, mazeIsDone, mazeList, pc, locals>>
       ELSE IF w < -1
       THEN /\ ret' = MazeError(1)
            /\ UNCHANGED <<config, mazeIsDone, mazeList, pc, locals>>
       ELSE /\ weightBraid' = w
            /\ tileIndex' = 0
            /\ pc' = "braid"
            /\ UNCHANGED <<config, mazeIsDone, mazeList, frontList, choiceList,
                           weightHigh, weightLow, ret>>

\* The call: the NotFormed and InvalidArgument checks.
makeMazeBraided(w) ==
    /\ pc = "idle"
    /\ IF ~mazeIsDone
       THEN /\ ret' = MazeError(4)
            /\ UNCHANGED <<config, mazeIsDone, mazeList, pc, locals>>
       ELSE IF w < -1 \/ w > 100
       THEN /\ ret' = MazeError(1)
            /\ UNCHANGED <<config, mazeIsDone, mazeList, pc, locals>>
       ELSE /\ weightBraid' = w
            /\ tileIndex' = 0
            /\ pc' = "braid"
            /\ UNCHANGED <<config, mazeIsDone, mazeList, frontList, choiceList,
                           weightHigh, weightLow, ret>>

\* The loop moves to the next tile, or the method returns True after the last.
BraidAdvance ==
    IF tileIndex + 1 < sizeX * sizeY
    THEN /\ tileIndex' = tileIndex + 1
         /\ UNCHANGED <<pc, ret, frontList, choiceList, weightHigh, weightLow, weightBraid>>
    ELSE /\ pc' = "idle"
         /\ ret' = ReturnTrue
         /\ DropLocals

\* One iteration of the loop over the tiles, in either mode.
BraidTile ==
    /\ pc = "braid"
    /\ LET tile == TileAt(tileIndex)
           connectTo == mazeList[tile].connectTo
       IN  IF weightBraid = -1
           THEN /\ IF BagCardinality(connectTo) = 1
                   THEN mazeList' \in ShuffleAndTry(
                            mazeList, tile, ListRemove(AllDirections, OnlyMember(connectTo)))
                   ELSE UNCHANGED mazeList
                /\ BraidAdvance
           ELSE \E getsConnection \in {BraidDraw(weightBraid, d) : d \in Draws} :
                IF getsConnection
                THEN IF RemoveRaises(connectTo)
                     THEN /\ pc' = "idle"
                          /\ ret' = PyError("ValueError")
                          /\ DropLocals
                          /\ UNCHANGED mazeList
                     ELSE /\ mazeList' \in ShuffleAndTry(
                                mazeList, tile, RemoveAll(AllDirections, connectTo))
                          /\ BraidAdvance
                ELSE /\ UNCHANGED mazeList
                     /\ BraidAdvance
    /\ UNCHANGED <<config, mazeIsDone>>

----------------------------------------------------------------------------
(* Maze.__calculate_distance: the search over the tiles' connectTo lists.   *)
(* A position is an <<x, y>> pair, inside the grid or not.                  *)

\* The value returned, or the exception that leaves the method.
DistanceReturn(dist) == [raised |-> "none", dist |-> dist]
DistanceRaise(error) == [raised |-> error, dist |-> 0]

\* self.mazeList[y][x] of Python lists: an index i of a list of length n is
\* accepted for -n <= i < n, a negative one counting from the end.
Indexable(pos) ==
    /\ -sizeY <= pos[2] /\ pos[2] < sizeY
    /\ -sizeX <= pos[1] /\ pos[1] < sizeX

TileRead(pos) == <<pos[1] % sizeX, pos[2] % sizeY>>

\* "for direction in tile.connectTo": the members of the list.  The order of
\* connectTo is not kept here; N, S, W, E is used.  The order decides only in
\* which order the positions of one distance are visited.
ConnectSeq(connections) ==
    LET Listed(d) == BagIn(d, connections)
    IN  SelectSeq(AllDirections, Listed)

\* "while queue": queue holds <<position, distance>> pairs.
RECURSIVE DistanceSearch(_, _, _, _)
DistanceSearch(ml, end_pos, queue, visited) ==
    IF queue = <<>> THEN DistanceReturn(0)
    ELSE LET pos == Head(queue)[1]
             dist == Head(queue)[2]
         IN  IF pos = end_pos THEN DistanceReturn(dist)
             ELSE IF ~Indexable(pos) THEN DistanceRaise("IndexError")
             ELSE LET tile == ml[TileRead(pos)]
                      IsNew(d) == Step(pos, d) \notin visited
                      found == SelectSeq(ConnectSeq(tile.connectTo), IsNew)
                  IN  DistanceSearch(
                          ml, end_pos,
                          Tail(queue) \o [i \in 1..Len(found) |-> <<Step(pos, found[i]), dist + 1>>],
                          visited \cup {Step(pos, found[i]) : i \in 1..Len(found)})

calculate_distance(start_pos, end_pos) ==
    DistanceSearch(mazeList, end_pos, <<(<<start_pos, 0>>)>>, {start_pos})

----------------------------------------------------------------------------
(* Maze.get_maze_as_list *)

\* [[v for _ in range(sizeX * 2 + 1)] for _ in range(sizeY * 2 + 1)]
FilledGrid(v) == [r \in 1..(sizeY * 2 + 1) |-> [c \in 1..(sizeX * 2 + 1) |-> v]]

\* grid[y][x] of the Python nested list
Cell(grid, x, y) == grid[y + 1][x + 1]

\* The display cell one step from display cell <<x, y>> in direction d.
DisplayStep(x, y, d) ==
    CASE d = "N" -> <<x, y - 1>>
      [] d = "S" -> <<x, y + 1>>
      [] d = "W" -> <<x - 1, y>>
      [] d = "E" -> <<x + 1, y>>

\* The border test comparing with the lengths, not with the last indexes.
OnBorder_PastEnd(grid, c) ==
    \/ c[2] = 0
    \/ c[2] = Len(grid)
    \/ c[1] = 0
    \/ c[1] = Len(grid[1])

\* "y + dy == 0 or y + dy == len(maze_list)-1 or x + dx == 0 or ..."
OnBorder(grid, c) ==
    \/ c[2] = 0
    \/ c[2] = Len(grid) - 1
    \/ c[1] = 0
    \/ c[1] = Len(grid[1]) - 1

\* The loop body without the border test: every connection of the entry
\* (exit) tile is written as 'S' ('E').
ListWriteTile_NoBorderTest(grid, tile) ==
    LET x == (tile[1] + 1) * 2 - 1
        y == (tile[2] + 1) * 2 - 1
        t == mazeList[tile]
        Targets == {DisplayStep(x, y, d) : d \in BagToSet(t.connectTo)}
        Symbol(c) ==
            IF t.is_entry # NoneRole
            THEN (IF t.is_entry = EntryRole THEN "S" ELSE "E")
            ELSE " "
    IN  [r \in DOMAIN grid |->
            [c \in DOMAIN grid[r] |->
                IF <<c - 1, r - 1>> \in Targets THEN Symbol(<<c - 1, r - 1>>)
                ELSE IF <<c - 1, r - 1>> = <<x, y>> THEN " "
                ELSE grid[r][c]]]

\* The loop body with the tile's cell at (x + 1) * 2, (y + 1) * 2.
ListWriteTile_OffByOne(grid, tile) ==
    LET x == (tile[1] + 1) * 2
        y == (tile[2] + 1) * 2
        t == mazeList[tile]
        Targets == {DisplayStep(x, y, d) : d \in BagToSet(t.connectTo)}
        Symbol(c) ==
            IF t.is_entry # NoneRole /\ OnBorder(grid, c)
            THEN (IF t.is_entry = EntryRole THEN "S" ELSE "E")
            ELSE " "
    IN  [r \in DOMAIN grid |->
            [c \in DOMAIN grid[r] |->
                IF <<c - 1, r - 1>> \in Targets THEN Symbol(<<c - 1, r - 1>>)
                ELSE IF <<c - 1, r - 1>> = <<x, y>> THEN " "
                ELSE grid[r][c]]]

\* The body of "for tile in row": the tile's own cell, then one cell for
\* each member of connectTo.
ListWriteTile(grid, tile) ==
    LET x == (tile[1] + 1) * 2 - 1
        y == (tile[2] + 1) * 2 - 1
        t == mazeList[tile]
        Targets == {DisplayStep(x, y, d) : d \in BagToSet(t.connectTo)}
        Symbol(c) ==
            IF t.is_entry # NoneRole /\ OnBorder(grid, c)
            THEN (IF t.is_entry = EntryRole THEN "S" ELSE "E")
            ELSE " "
    IN  [r \in DOMAIN grid |->
            [c \in DOMAIN grid[r] |->
                IF <<c - 1, r - 1>> \in Targets THEN Symbol(<<c - 1, r - 1>>)
                ELSE IF <<c - 1, r - 1>> = <<x, y>> THEN " "
                ELSE grid[r][c]]]

\* "for row in self.mazeList: for tile in row", from the k-th tile on.
RECURSIVE ListFill(_, _)
ListFill(grid, k) ==
    IF k >= sizeX * sizeY THEN grid
    ELSE ListFill(ListWriteTile(grid, TileAt(k)), k + 1)

maze_as_list == ListFill(FilledGrid("#"), 0)

\* get_maze_as_list without the NotFormed check: with no tiles the loops
\* write nothing.
get_maze_as_list_NoCheck ==
    /\ pc = "idle"
    /\ ret' = ReturnList(IF ~mazeIsDone THEN FilledGrid("#") ELSE maze_as_list)
    /\ UNCHANGED <<config, mazeIsDone, mazeList, pc, locals>>

get_maze_as_list ==
    /\ pc = "idle"
    /\ ret' = IF ~mazeIsDone THEN MazeError(4) ELSE ReturnList(maze_as_list)
    /\ UNCHANGED <<config, mazeIsDone, mazeList, pc, locals>>

----------------------------------------------------------------------------
(* The breadth-first search of get_maze_with_distances and                  *)
(* get_maze_detailed_info over the display grid.                            *)

\* The four offsets [(-1, 0), (1, 0), (0, -1), (0, 1)] applied to a position.
Offsets(p) ==
    <<(<<p[1], p[2] - 1>>), (<<p[1], p[2] + 1>>), (<<p[1] - 1, p[2]>>), (<<p[1] + 1, p[2]>>)>>

\* "while queue": queue holds <<position, distance>> pairs, open is the set of
\* positions inside the grid whose cell the search may enter.  The result maps
\* every position reached to its distance.  (get_maze_with_distances records
\* the distance when a position is popped, get_maze_detailed_info when it is
\* appended; a position is appended once, so the maps are the same.)
\* The search with "queue.pop()" for "queue.pop(0)": the newest position is
\* taken first.
RECURSIVE GridBFS_Stack(_, _, _, _)
GridBFS_Stack(open, queue, visited, distances) ==
    IF queue = <<>> THEN distances
    ELSE LET pos == queue[Len(queue)][1]
             dist == queue[Len(queue)][2]
             IsNew(q) == q \in open /\ q \notin visited
             found == SelectSeq(Offsets(pos), IsNew)
         IN  GridBFS_Stack(open,
                     SubSeq(queue, 1, Len(queue) - 1)
                         \o [i \in 1..Len(found) |-> <<found[i], dist + 1>>],
                     visited \cup Range(found),
                     (pos :> dist) @@ distances)

\* The search appending only the first new neighbour of a cell.
RECURSIVE GridBFS_FirstOnly(_, _, _, _)
GridBFS_FirstOnly(open, queue, visited, distances) ==
    IF queue = <<>> THEN distances
    ELSE LET pos == Head(queue)[1]
             dist == Head(queue)[2]
             IsNew(q) == q \in open /\ q \notin visited
             found == SelectSeq(Offsets(pos), IsNew)
             first == IF found = <<>> THEN <<>> ELSE <<Head(found)>>
         IN  GridBFS_FirstOnly(open,
                     Tail(queue) \o [i \in 1..Len(first) |-> <<first[i], dist + 1>>],
                     visited \cup Range(first),
                     (pos :> dist) @@ distances)

RECURSIVE GridBFS(_, _, _, _)
GridBFS(open, queue, visited, distances) ==
    IF queue = <<>> THEN distances
    ELSE LET pos == Head(queue)[1]
             dist == Head(queue)[2]
             IsNew(q) == q \in open /\ q \notin visited
             found == SelectSeq(Offsets(pos), IsNew)
         IN  GridBFS(open,
                     Tail(queue) \o [i \in 1..Len(found) |-> <<found[i], dist + 1>>],
                     visited \cup Range(found),
                     (pos :> dist) @@ distances)

\* The positions <<x, y>> of a grid whose cell is one of the given symbols.
Positions(grid, symbols) ==
    {q \in (0..(Len(grid[1]) - 1)) \X (0..(Len(grid) - 1)) : Cell(grid, q[1], q[2]) \in symbols}

----------------------------------------------------------------------------
(* Maze.get_maze_with_distances *)

\* A cell of the distance grid is a string ('#', 'E') or an integer.
StrCell(v) == [isInt |-> FALSE, str |-> v, int |-> 0]
IntCell(n) == [isInt |-> TRUE, str |-> "", int |-> n]

ReturnDistances(g) == [kind |-> "distances", errorcode |-> 0, grid |-> g]

\* The values start_pos can end with: the border cells the entry tile opens.
\* The loop assigns start_pos once for each such member of connectTo, the
\* last one stays.
DistanceStartCandidates(grid) ==
    UNION {{c \in {DisplayStep((t[1] + 1) * 2 - 1, (t[2] + 1) * 2 - 1, d) :
                        d \in BagToSet(mazeList[t].connectTo)} : OnBorder(grid, c)}
           : t \in {u \in Tiles : mazeList[u].is_entry = EntryRole}}

\* "BFS to calculate distances" and "Fill in distances"
DistanceGrid(grid, start_pos) ==
    LET distances == GridBFS(Positions(grid, {" "}), <<(<<start_pos, 0>>)>>,
                             {start_pos}, <<>>)
    IN  [r \in DOMAIN grid |->
            [c \in DOMAIN grid[r] |->
                IF <<c - 1, r - 1>> \in DOMAIN distances
                THEN IntCell(distances[<<c - 1, r - 1>>])
                ELSE IF grid[r][c] # "#" /\ grid[r][c] # "E" THEN IntCell(-1)
                ELSE StrCell(grid[r][c])]]

\* The grid is filled by the same loop as in get_maze_as_list.
get_maze_with_distances ==
    /\ pc = "idle"
    /\ IF ~mazeIsDone
       THEN ret' = MazeError(4)
       ELSE IF DistanceStartCandidates(maze_as_list) = {}
       THEN ret' = MazeError(5)
       ELSE \E start_pos \in DistanceStartCandidates(maze_as_list) :
                ret' = ReturnDistances(DistanceGrid(maze_as_list, start_pos))
    /\ UNCHANGED <<config, mazeIsDone, mazeList, pc, locals>>

----------------------------------------------------------------------------
(* Maze.get_maze_detailed_info *)

\* distance: None is <<>>, an integer n is <<n>>.
DetailedCell(index, distance, N, S, W, E) ==
    [index |-> index, distance |-> distance, N |-> N, S |-> S, W |-> W, E |-> E]

ReturnDetailed(g) == [kind |-> "detailed", errorcode |-> 0, grid |-> g]

\* is_border_cell_for_entry_exit
IsBorderCellForEntryExit(tile, direction) ==
    /\ mazeList[tile].is_entry # NoneRole
    /\ \/ direction = "N" /\ tile[2] = 0
       \/ direction = "S" /\ tile[2] = sizeY - 1
       \/ direction = "W" /\ tile[1] = 0
       \/ direction = "E" /\ tile[1] = sizeX - 1

\* The loop body with the test "index == '#'" of the last branch negated: a
\* connection between two tiles never turns its cell into a path.
DetailedWriteTile_NeverOpens(grid, tile) ==
    LET x == (tile[1] + 1) * 2 - 1
        y == (tile[2] + 1) * 2 - 1
        t == mazeList[tile]
        InGrid(c) == /\ 0 <= c[1] /\ c[1] < sizeX * 2 + 1
                     /\ 0 <= c[2] /\ c[2] < sizeY * 2 + 1
        Used == {d \in BagToSet(t.connectTo) : InGrid(DisplayStep(x, y, d))}
        Marked == {DisplayStep(x, y, d) : d \in {e \in Used : IsBorderCellForEntryExit(tile, e)}}
    IN  [r \in DOMAIN grid |->
            [c \in DOMAIN grid[r] |->
                IF <<c - 1, r - 1>> \in Marked
                THEN (IF t.is_entry = EntryRole THEN "S" ELSE "E")
                ELSE IF <<c - 1, r - 1>> = <<x, y>> THEN " "
                ELSE grid[r][c]]]

\* The body of "for tile in row_tiles" on the grid of 'index' values.
DetailedWriteTile(grid, tile) ==
    LET x == (tile[1] + 1) * 2 - 1
        y == (tile[2] + 1) * 2 - 1
        t == mazeList[tile]
        InGrid(c) == /\ 0 <= c[1] /\ c[1] < sizeX * 2 + 1
                     /\ 0 <= c[2] /\ c[2] < sizeY * 2 + 1
        Used == {d \in BagToSet(t.connectTo) : InGrid(DisplayStep(x, y, d))}
        Marked == {DisplayStep(x, y, d) : d \in {e \in Used : IsBorderCellForEntryExit(tile, e)}}
        Opened == {DisplayStep(x, y, d) : d \in {e \in Used : ~IsBorderCellForEntryExit(tile, e)}}
    IN  [r \in DOMAIN grid |->
            [c \in DOMAIN grid[r] |->
                IF <<c - 1, r - 1>> \in Marked
                THEN (IF t.is_entry = EntryRole THEN "S" ELSE "E")
                ELSE IF <<c - 1, r - 1>> \in Opened /\ grid[r][c] = "#" THEN " "
                ELSE IF <<c - 1, r - 1>> = <<x, y>> THEN " "
                ELSE grid[r][c]]]

RECURSIVE DetailedFill(_, _)
DetailedFill(grid, k) ==
    IF k >= sizeX * sizeY THEN grid
    ELSE DetailedFill(DetailedWriteTile(grid, TileAt(k)), k + 1)

detailed_index == DetailedFill(FilledGrid("#"), 0)

\* The values start_pos_on_grid can get in the loop over the tiles: it is
\* assigned by the first member of the first entry tile's connectTo that
\* marks a border cell.
DetailedStartCandidates ==
    UNION {{DisplayStep((t[1] + 1) * 2 - 1, (t[2] + 1) * 2 - 1, d) :
                d \in {e \in BagToSet(mazeList[t].connectTo) : IsBorderCellForEntryExit(t, e)}}
           : t \in {u \in Tiles : mazeList[u].is_entry = EntryRole}}

\* "Fallback: scan grid for 'S'": the first 'S' in row order, if any.
DetailedFallback(grid) ==
    LET Found == Positions(grid, {"S"})
    IN  {q \in Found : \A o \in Found : q[2] < o[2] \/ (q[2] = o[2] /\ q[1] <= o[1])}

\* The search and "Fill in distances and N,S,W,E connection info".
DetailedGrid(grid, start_pos) ==
    LET distances == GridBFS(Positions(grid, {" ", "E"}), <<(<<start_pos, 0>>)>>,
                             {start_pos}, <<>>)
        rows == Len(grid)
        cols == Len(grid[1])
        IsPathIndex(r, c) == grid[r][c] \in {" ", "S", "E"}
    IN  [r \in DOMAIN grid |->
            [c \in DOMAIN grid[r] |->
                DetailedCell(
                    grid[r][c],
                    IF <<c - 1, r - 1>> \in DOMAIN distances
                    THEN <<distances[<<c - 1, r - 1>>]>>
                    ELSE IF grid[r][c] = " " THEN <<-1>> ELSE <<>>,
                    r - 1 > 0 /\ IsPathIndex(r - 1, c),
                    r - 1 < rows - 1 /\ IsPathIndex(r + 1, c),
                    c - 1 > 0 /\ IsPathIndex(r, c - 1),
                    c - 1 < cols - 1 /\ IsPathIndex(r, c + 1))]]

get_maze_detailed_info ==
    /\ pc = "idle"
    /\ IF ~mazeIsDone
       THEN ret' = MazeError(4)
       ELSE LET starts == IF DetailedStartCandidates # {}
                          THEN DetailedStartCandidates
                          ELSE DetailedFallback(detailed_index)
            IN  IF starts = {}
                THEN ret' = MazeError(5)
                ELSE \E start_pos \in starts :
                        ret' = ReturnDetailed(DetailedGrid(detailed_index, start_pos))
    /\ UNCHANGED <<config, mazeIsDone, mazeList, pc, locals>>

----------------------------------------------------------------------------
(* Maze.makePP, called with its default arguments: mode "1", colorWall 0,   *)
(* colorFloor 1.  The picture is kept as one colour for each square of      *)
(* pixelSizeOfTile pixels.                                                  *)

ReturnImage(g) == [kind |-> "image", errorcode |-> 0, grid |-> g]

\* Image.new(mode, size, colorWall) and the rectangles drawn for every tile.
PictureSquares(colorWall, colorFloor) ==
    [r \in 1..(sizeY * 2 + 1) |->
        [c \in 1..(sizeX * 2 + 1) |->
            IF \E t \in Tiles :
                  LET x == (t[1] + 1) * 2 - 1
                      y == (t[2] + 1) * 2 - 1
                  IN  \/ <<c - 1, r - 1>> = <<x, y>>
                      \/ \E d \in BagToSet(mazeList[t].connectTo) :
                            <<c - 1, r - 1>> = DisplayStep(x, y, d)
            THEN colorFloor
            ELSE colorWall]]

makePP ==
    /\ pc = "idle"
    /\ ret' = IF ~mazeIsDone THEN MazeError(4) ELSE ReturnImage(PictureSquares(0, 1))
    /\ UNCHANGED <<config, mazeIsDone, mazeList, pc, locals>>

----------------------------------------------------------------------------
(* The module-wide generator rnd ("import random as rnd"): one state shared *)
(* by every Maze of the process.  The generator is outside the repository;  *)
(* it is modelled as a linear congruential generator of 16 bits whose high  *)
(* 8 bits are the output.  Every draw advances the state once.              *)

\* The state after one draw.
RndNext(s) == (s * 25173 + 13849) % 65536
\* The output of the draw that led to state s: 0..255.
RndOut(s) == s \div 256

\* rnd.seed(a)
rnd_seed(a) == a % 65536

\* rnd.random() * 100 in half units, read from the state after the draw.
rnd_random100(s) == (RndOut(s) * 200) \div 256

\* rnd.choice(seq): the member drawn and the state after the draw.
rnd_choice(s, seq) ==
    [value |-> seq[(RndOut(RndNext(s)) * Len(seq)) \div 256 + 1], rnd |-> RndNext(s)]

\* rnd.shuffle(x), from position i down: "j = randbelow(i + 1)", swap.
RECURSIVE rnd_shuffle(_, _, _)
rnd_shuffle(s, x, i) ==
    IF i <= 1 THEN [value |-> x, rnd |-> s]
    ELSE LET s1 == RndNext(s)
             j == (RndOut(s1) * i) \div 256 + 1
         IN  rnd_shuffle(s1, [x EXCEPT ![i] = x[j], ![j] = x[i]], i - 1)

----------------------------------------------------------------------------
(* The formation and braiding methods as generate_maze runs them: the same  *)
(* statements, every draw taken from the generator.  Each operator yields   *)
(* the tile grid and the generator state it ends with.                      *)

\* startingtile = rnd.choice(rnd.choice(self.mazeList))
StartingTile(s) ==
    LET row == rnd_choice(s, [i \in 1..sizeY |-> i - 1])
        col == rnd_choice(row.rnd, [i \in 1..sizeX |-> i - 1])
    IN  [value |-> <<col.value, row.value>>, rnd |-> col.rnd]

\* "while len(frontList) > 0" of makeMazeSimple, frontList a list.
RECURSIVE RunSimpleLoop(_, _, _)
RunSimpleLoop(ml, front, s) ==
    IF front = <<>> THEN [ml |-> ml, rnd |-> s]
    ELSE LET shuffled == rnd_shuffle(s, front, Len(front))
             nextTile == shuffled.value[Len(front)]
             popped == SubSeq(shuffled.value, 1, Len(front) - 1)
             ml1 == [ml EXCEPT ![nextTile].workedOn = TRUE]
             tempList == getNextTiles(nextTile[1], nextTile[2])
             IsWorkedOn(t) == ml1[t].workedOn
             IsNewFront(t) == ~ml1[t].workedOn /\ t \notin Range(popped)
             workedOnList == SelectSeq(tempList, IsWorkedOn)
             newFrontTiles == SelectSeq(tempList, IsNewFront)
             connect == IF Len(workedOnList) > 1
                        THEN rnd_choice(shuffled.rnd, workedOnList)
                        ELSE [value |-> workedOnList[1], rnd |-> shuffled.rnd]
         IN  RunSimpleLoop(connectTiles(ml1, nextTile, connect.value),
                           popped \o newFrontTiles, connect.rnd)

\* "while len(choiceList) > 0" of makeMazeGrowTree.
RECURSIVE RunGrowTreeLoop(_, _, _, _, _)
RunGrowTreeLoop(ml, choices, wHigh, wLow, s) ==
    IF choices = <<>> THEN [ml |-> ml, rnd |-> s]
    ELSE LET s1 == RndNext(s)
             choice_ == rnd_random100(s1)
             next == IF choice_ <= 2 * wLow
                     THEN [value |-> choices[Len(choices)], rnd |-> s1]
                     ELSE IF 2 * wLow < choice_ /\ choice_ < 2 * wHigh
                     THEN rnd_choice(s1, choices)
                     ELSE [value |-> choices[1], rnd |-> s1]
             nextTile == next.value
             NotWorkedOn(t) == ~ml[t].workedOn
             neiList == SelectSeq(getNextTiles(nextTile[1], nextTile[2]), NotWorkedOn)
             connect == rnd_choice(next.rnd, neiList)
         IN  IF Len(neiList) = 0
             THEN RunGrowTreeLoop(ml, ListRemove(choices, nextTile), wHigh, wLow, next.rnd)
             ELSE RunGrowTreeLoop(
                      connectTiles([ml EXCEPT ![connect.value].workedOn = TRUE],
                                   nextTile, connect.value),
                      Append(choices, connect.value), wHigh, wLow, connect.rnd)

\* The redraw loop of __makeEntryandExit can end: some pair of candidates
\* differs.  Otherwise every draw repeats the same tile twice.
CanPlace ==
    ~(\A a \in Range(get_wall_tiles(start_wall)), b \in Range(get_wall_tiles(end_wall)) : a = b)

\* "while True: entry_pos = rnd.choice(start_tiles); exit_pos = ..."
RECURSIVE RunRedraw(_)
RunRedraw(s) ==
    LET entry == rnd_choice(s, get_wall_tiles(start_wall))
        exit == rnd_choice(entry.rnd, get_wall_tiles(end_wall))
    IN  IF entry.value # exit.value
        THEN [entry_pos |-> entry.value, exit_pos |-> exit.value, rnd |-> exit.rnd]
        ELSE RunRedraw(exit.rnd)

\* __makeEntryandExit on the grid a formation loop left.
RunEntryandExit(formed) ==
    LET drawn == RunRedraw(formed.rnd)
    IN  [ml |-> SetBoundary(SetBoundary(formed.ml, drawn.entry_pos, EntryRole),
                            drawn.exit_pos, ExitRole),
         rnd |-> drawn.rnd]

\* makeMazeSimple()
RunSimple(s) ==
    LET start == StartingTile(s)
    IN  RunEntryandExit(RunSimpleLoop(
            [NewMazeList EXCEPT ![start.value].workedOn = TRUE],
            getNextTiles(start.value[1], start.value[2]), start.rnd))

\* makeMazeGrowTree(weightHigh, weightLow)
RunGrowTree(wHigh, wLow, s) ==
    LET start == StartingTile(s)
    IN  RunEntryandExit(RunGrowTreeLoop(
            [NewMazeList EXCEPT ![start.value].workedOn = TRUE],
            <<start.value>>, wHigh, wLow, start.rnd))

\* The loops over the tiles of makeMazeBraided, from the k-th tile on.  A
\* ValueError of directionList.remove ends the call: raised names it.
RECURSIVE RunBraidLoop(_, _, _, _)
RunBraidLoop(ml, k, w, s) ==
    IF k >= sizeX * sizeY THEN [ml |-> ml, rnd |-> s, raised |-> "none"]
    ELSE LET tile == TileAt(k)
             connectTo == ml[tile].connectTo
         IN  IF w = -1
             THEN IF BagCardinality(connectTo) = 1
                  THEN LET shuffled == rnd_shuffle(
                               s, ListRemove(AllDirections, OnlyMember(connectTo)), 3)
                       IN  RunBraidLoop(TryDirections(ml, tile, shuffled.value),
                                        k + 1, w, shuffled.rnd)
                  ELSE RunBraidLoop(ml, k + 1, w, s)
             ELSE LET s1 == RndNext(s)
                      directionList == RemoveAll(AllDirections, connectTo)
                      shuffled == rnd_shuffle(s1, directionList, Len(directionList))
                  IN  IF ~BraidDraw(w, rnd_random100(s1))
                      THEN RunBraidLoop(ml, k + 1, w, s1)
                      ELSE IF RemoveRaises(connectTo)
                      THEN [ml |-> ml, rnd |-> s1, raised |-> "ValueError"]
                      ELSE RunBraidLoop(TryDirections(ml, tile, shuffled.value),
                                        k + 1, w, shuffled.rnd)

----------------------------------------------------------------------------
(* maze_generator.generate_maze *)

\* The arguments explored.  A dict is a function from its keys; the seed None
\* is <<>> and an integer seed n is <<n>>.
Algorithms == {"simple", "growing_tree", "braided"}
Modes == {"list", "dict", "distances", "image"}
Seeds == 0..MaxSeed
NoSettings == [k \in {} |-> 0]
AlgorithmSettings ==
    {NoSettings,
     ("weightHigh" :> 100) @@ ("weightLow" :> 0) @@ ("weightBraid" :> 50),
     ("weighHigh" :> 100) @@ ("weightLow" :> 0)}
\* The (start_wall, end_wall) arguments explored: the default and one pair of
\* opposite walls.
GenWalls == {<<"Any", "Any">>, <<"N", "S">>}

\* default_algo_settings, and default_algo_settings.update(algorithm_settings)
\* when algorithm_settings is not empty.
default_algo_settings ==
    ("weighHigh" :> 99) @@ ("weightLow" :> 97) @@ ("weightBraid" :> -1)
UpdatedSettings(algorithm_settings) == algorithm_settings @@ default_algo_settings

\* Maze.__init__ without "if seed is not None: rnd.seed(seed)": the clock
\* seeds the generator whatever the seed.
SeededStates_IgnoresSeed(seed) == {rnd_seed(now) : now \in Seeds}

\* "rnd.seed(seed)" or "rnd.seed(int(time.time() * 1000))" of Maze.__init__,
\* the clock read being any value.
SeededStates(seed) ==
    IF seed # <<>> THEN {rnd_seed(seed[1])} ELSE {rnd_seed(now) : now \in Seeds}

\* Two calls were given the same arguments.
SameArguments(a, b) ==
    /\ a.width = b.width /\ a.height = b.height
    /\ a.algorithm = b.algorithm /\ a.algorithm_settings = b.algorithm_settings
    /\ a.mode = b.mode
    /\ a.start_wall = b.start_wall /\ a.end_wall = b.end_wall

\* The call, up to "maze.end_wall = end_wall": the merged settings and a new
\* Maze object, whose __init__ seeds the generator.  The calls of one
\* behaviour repeat the arguments of the first, the seed apart.
generate_maze(width, height, algorithm, algorithm_settings, mode, seed, sw, ew) ==
    LET call == [width |-> width, height |-> height, algorithm |-> algorithm,
                 algorithm_settings |-> algorithm_settings,
                 settings |-> UpdatedSettings(algorithm_settings),
                 mode |-> mode, seed |-> seed, start_wall |-> sw, end_wall |-> ew,
                 stage |-> "algorithm",
                 calls |-> genCall.calls + 1]
    IN  /\ pc = "idle"
        /\ genCall.stage = "returned"
        /\ call.calls <= MaxCalls
        /\ firstRun # NoRun => SameArguments(call, firstRun.call)
        /\ genCall' = call
        /\ sizeX' = width
        /\ sizeY' = height
        /\ start_wall' = sw
        /\ end_wall' = ew
        /\ mazeIsDone' = FALSE
        /\ mazeList' = <<>>
        /\ rndState' \in SeededStates(seed)
        /\ ret' = NoReturn
        /\ DropLocals
        /\ UNCHANGED <<pc, firstRun>>

\* "Apply selected algorithm".  With no pair of distinct candidate tiles the
\* redraw loop of __makeEntryandExit never ends and there is no next step.
generate_maze_algorithm ==
    /\ pc = "idle"
    /\ genCall.stage = "algorithm"
    /\ CanPlace
    /\ LET wHigh == genCall.settings["weighHigh"]
           wLow == genCall.settings["weightLow"]
           wBraid == genCall.settings["weightBraid"]
           formed == IF genCall.algorithm = "simple" THEN RunSimple(rndState)
                     ELSE RunGrowTree(wHigh, wLow, rndState)
           braided == RunBraidLoop(formed.ml, 0, wBraid, formed.rnd)
       IN  /\ mazeIsDone' = TRUE
           /\ IF genCall.algorithm = "simple"
              THEN UNCHANGED <<weightHigh, weightLow>>
              ELSE weightHigh' = wHigh /\ weightLow' = wLow
           /\ IF genCall.algorithm # "braided"
              THEN /\ mazeList' = formed.ml
                   /\ rndState' = formed.rnd
                   /\ genCall' = [genCall EXCEPT !.stage = "mode"]
                   /\ UNCHANGED <<weightBraid, ret>>
              ELSE /\ weightBraid' = wBraid
                   /\ IF wBraid < -1 \/ wBraid > 100
                      THEN /\ mazeList' = formed.ml
                           /\ rndState' = formed.rnd
                           /\ ret' = MazeError(1)
                           /\ genCall' = [genCall EXCEPT !.stage = "returned"]
                      ELSE /\ mazeList' = braided.ml
                           /\ rndState' = braided.rnd
                           /\ IF braided.raised = "none"
                              THEN /\ genCall' = [genCall EXCEPT !.stage = "mode"]
                                   /\ UNCHANGED ret
                              ELSE /\ genCall' = [genCall EXCEPT !.stage = "returned"]
                                   /\ ret' = PyError(braided.raised)
    /\ UNCHANGED <<config, pc, frontList, choiceList, tileIndex, firstRun>>

\* "Return based on mode": the export method the mode names; the picture is
\* asked for with the colours 'Black' and 'White'.
generate_maze_return ==
    /\ genCall.stage = "mode"
    /\ \/ genCall.mode = "list" /\ get_maze_as_list
       \/ genCall.mode = "dict" /\ get_maze_detailed_info
       \/ genCall.mode = "distances" /\ get_maze_with_distances
       \/ /\ genCall.mode \notin {"list", "dict", "distances"}
          /\ pc = "idle"
          /\ ret' = ReturnImage(PictureSquares("Black", "White"))
          /\ UNCHANGED <<config, mazeIsDone, mazeList, pc, locals>>
    /\ genCall' = [genCall EXCEPT !.stage = "returned"]
    /\ firstRun' = IF firstRun = NoRun THEN [call |-> genCall, ret |-> ret'] ELSE firstRun
    /\ UNCHANGED rndState

\* A process that only calls generate_maze.
GenInit ==
    /\ sizeX = 1
    /\ sizeY = 1
    /\ start_wall = "Any"
    /\ end_wall = "Any"
    /\ mazeIsDone = FALSE
    /\ mazeList = <<>>
    /\ pc = "idle"
    /\ frontList = {}
    /\ choiceList = <<>>
    /\ weightHigh = 0
    /\ weightLow = 0
    /\ weightBraid = 0
    /\ tileIndex = 0
    /\ ret = NoReturn
    /\ rndState = 0
    /\ genCall = NoCall
    /\ firstRun = NoRun

\* Mode "list" is explored with every combination of the other arguments,
\* the other modes with the default algorithm, settings and walls.
GenNext ==
    \/ \E width \in 1..GenMaxSize, height \in 1..GenMaxSize,
          algorithm \in Algorithms, algorithm_settings \in AlgorithmSettings,
          mode \in Modes, seed \in {<<>>} \cup {<<n>> : n \in Seeds},
          walls \in GenWalls :
          /\ \/ mode = "list"
             \/ /\ algorithm = "growing_tree"
                /\ algorithm_settings = NoSettings
                /\ walls = <<"Any", "Any">>
          /\ generate_maze(width, height, algorithm, algorithm_settings, mode, seed,
                           walls[1], walls[2])
    \/ generate_maze_algorithm
    \/ generate_maze_return

GenSpec == GenInit /\ [][GenNext]_vars

----------------------------------------------------------------------------
(* Two Maze objects and the one generator of the random module: the maze A  *)
(* is constructed with an integer seed, other Maze objects are constructed, *)
(* then a formation method of A is called.  Of the other objects only the   *)
(* seeding of the generator by their __init__ is followed.                  *)

\* A after Maze(dimensionX, dimensionY, seed = seed); calls counts the Maze
\* objects constructed after it.
Constructed(seed) ==
    [algorithm |-> "none", stage |-> "constructed", calls |-> 0, seed |-> <<seed>>]

SeedInit ==
    /\ sizeX \in 1..GenMaxSize
    /\ sizeY \in 1..GenMaxSize
    /\ \E walls \in GenWalls :
          /\ start_wall = walls[1]
          /\ end_wall = walls[2]
    /\ mazeIsDone = FALSE
    /\ mazeList = <<>>
    /\ pc = "idle"
    /\ frontList = {}
    /\ choiceList = <<>>
    /\ weightHigh = 0
    /\ weightLow = 0
    /\ weightBraid = 0
    /\ tileIndex = 0
    /\ ret = NoReturn
    /\ \E seed \in Seeds :
          /\ rndState = rnd_seed(seed)
          /\ genCall = Constructed(seed)
    /\ firstRun = NoRun

\* Maze.__init__ of another object: "rnd.seed(seed)" or "rnd.seed()" on the
\* generator that A's methods draw from.
OtherMaze(seed) ==
    /\ pc = "idle"
    /\ genCall.stage = "constructed"
    /\ genCall.calls < MaxCalls
    /\ rndState' \in SeededStates(seed)
    /\ genCall' = [genCall EXCEPT !.calls = @ + 1]
    /\ UNCHANGED <<config, mazeIsDone, mazeList, pc, locals, ret, firstRun>>

\* A.makeMazeSimple() or A.makeMazeGrowTree() with the default weights, run
\* to its return on the draws of the generator.
FormSeeded(algorithm) ==
    /\ pc = "idle"
    /\ genCall.stage = "constructed"
    /\ CanPlace
    /\ LET formed == IF algorithm = "simple" THEN RunSimple(rndState)
                     ELSE RunGrowTree(99, 97, rndState)
       IN  /\ mazeList' = formed.ml
           /\ rndState' = formed.rnd
    /\ mazeIsDone' = TRUE
    /\ ret' = ReturnTrue
    /\ genCall' = [genCall EXCEPT !.stage = "formed", !.algorithm = algorithm]
    /\ UNCHANGED <<config, pc, locals, firstRun>>

SeedNext ==
    \/ \E seed \in {<<>>} \cup {<<n>> : n \in Seeds} : OtherMaze(seed)
    \/ \E algorithm \in {"simple", "growing_tree"} : FormSeeded(algorithm)

SeedSpec == SeedInit /\ [][SeedNext]_vars

----------------------------------------------------------------------------

\* The methods of a Maze object, called in any order.  The draws are any
\* values here, so the generator's state is not followed.
Next ==
    \/ makeMazeSimple /\ UNCHANGED generator
    \/ SimpleLoop /\ UNCHANGED generator
    \/ (\E w \in GrowWeights : makeMazeGrowTree(w[1], w[2])) /\ UNCHANGED generator
    \/ GrowTreeLoop /\ UNCHANGED generator
    \/ makeEntryandExit /\ UNCHANGED generator
    \/ (\E w \in BraidWeights : makeMazeBraided(w)) /\ UNCHANGED generator
    \/ BraidTile /\ UNCHANGED generator
    \/ get_maze_as_list /\ UNCHANGED generator
    \/ get_maze_with_distances /\ UNCHANGED generator
    \/ get_maze_detailed_info /\ UNCHANGED generator
    \/ makePP /\ UNCHANGED generator

Spec == Init /\ [][Next]_vars

\* A Maze object with any of the 25 wall settings, on which the formation
\* methods are called.
FormInit ==
    /\ sizeX \in 1..MaxSizeX
    /\ sizeY \in 1..MaxSizeY
    /\ sizeX * sizeY <= MaxTiles
    /\ start_wall \in Walls
    /\ end_wall \in Walls
    /\ mazeIsDone = FALSE
    /\ mazeList = <<>>
    /\ pc = "idle"
    /\ frontList = {}
    /\ choiceList = <<>>
    /\ weightHigh = 0
    /\ weightLow = 0
    /\ weightBraid = 0
    /\ tileIndex = 0
    /\ ret = NoReturn
    /\ rndState = 0
    /\ genCall = NoCall
    /\ firstRun = NoRun

\* One pass of a loop of a running formation method.
FormStep ==
    /\ SimpleLoop \/ GrowTreeLoop \/ makeEntryandExit
    /\ UNCHANGED generator

FormNext ==
    \/ makeMazeSimple /\ UNCHANGED generator
    \/ (\E w \in GrowWeights : makeMazeGrowTree(w[1], w[2])) /\ UNCHANGED generator
    \/ FormStep

\* A running method goes on (the program is single-threaded and nothing
\* suspends it), and the draws are fair: a pass of the redraw loop that can
\* draw two different tiles does not draw equal ones forever.
FairFormSpec == FormInit /\ [][FormNext]_vars /\ WF_vars(FormStep)

----------------------------------------------------------------------------
(* The tile graph: nodes are the tiles, an edge joins two real tiles when   *)
(* one lists the direction of the other.                                    *)

\* The real tiles a tile lists a direction to.
ListedNeighbours(ml, t) ==
    {Step(t, d) : d \in BagToSet(ml[t].connectTo)} \cap DOMAIN ml

EdgeSet(ml) ==
    UNION {{{t, u} : u \in ListedNeighbours(ml, t)} : t \in DOMAIN ml}

\* The tiles joined to a tile of S by a path of edges of E.
RECURSIVE ReachFrom(_, _)
ReachFrom(E, S) ==
    LET T == S \cup UNION {e \in E : e \cap S # {}}
    IN  IF T = S THEN S ELSE ReachFrom(E, T)

IsConnected(ml) == ReachFrom(EdgeSet(ml), {<<0, 0>>}) = DOMAIN ml

\* The directions a tile lists that have no real tile on that side, counted
\* with their multiplicity.
OutwardCount(ml, t) ==
    LET Out == {d \in BagToSet(ml[t].connectTo) : Step(t, d) \notin DOMAIN ml}
    IN  BagCardinality([d \in Out |-> CopiesIn(d, ml[t].connectTo)])

Formed == mazeIsDone
FormedIdle == mazeIsDone /\ pc = "idle"
TileCount == sizeX * sizeY
\* Some connection was added to the spanning tree: a braiding pass has acted.
HasLoop == Cardinality(EdgeSet(mazeList)) > TileCount - 1

----------------------------------------------------------------------------
(* Claims *)

\* C1: when a formation call (makeMazeSimple or makeMazeGrowTree) returns,
\* whatever was drawn, the tile graph is connected and has exactly
\* sizeX * sizeY - 1 edges: it is a spanning tree of the grid.
C1_SpanningTree ==
    [][(~mazeIsDone /\ mazeIsDone') =>
        /\ IsConnected(mazeList')
        /\ Cardinality(EdgeSet(mazeList')) = TileCount - 1]_vars

C1_Witness ==
    /\ FormedIdle
    /\ ret.kind = "True"
    /\ sizeX = 2 /\ sizeY = 3
    /\ IsConnected(mazeList)
    /\ Cardinality(EdgeSet(mazeList)) = 5

\* C2: in every state from the return of the formation call on, through any
\* number of braiding passes, a tile A that lists direction D towards a real
\* tile B has B listing the opposite direction.
C2_Symmetry ==
    Formed =>
        \A A \in Tiles : \A D \in BagToSet(mazeList[A].connectTo) :
            Step(A, D) \in Tiles =>
                BagIn(Opposite(D), mazeList[Step(A, D)].connectTo)

C2_Witness ==
    /\ FormedIdle
    /\ HasLoop
    /\ \E A \in Tiles : BagIn("E", mazeList[A].connectTo) /\ Step(A, "E") \in Tiles
    /\ \E A \in Tiles : BagIn("S", mazeList[A].connectTo) /\ Step(A, "S") \in Tiles

\* C3: a formed maze has exactly one tile with is_entry = True, exactly one
\* with is_entry = False, they differ, every other tile has is_entry = None;
\* and no step taken on a formed maze (braiding, export, failed calls)
\* changes a tile's role.
RolesPlaced ==
    /\ Cardinality({t \in Tiles : mazeList[t].is_entry = EntryRole}) = 1
    /\ Cardinality({t \in Tiles : mazeList[t].is_entry = ExitRole}) = 1
    /\ \A t \in Tiles : mazeList[t].is_entry \in {EntryRole, ExitRole, NoneRole}

C3_Roles ==
    /\ [](Formed => RolesPlaced)
    /\ [][Formed =>
            /\ DOMAIN mazeList' = DOMAIN mazeList
            /\ \A t \in Tiles : mazeList'[t].is_entry = mazeList[t].is_entry]_vars

C3_Witness ==
    /\ FormedIdle
    /\ HasLoop
    /\ ret.kind = "list"
    /\ RolesPlaced

\* C4: in a formed maze, braided or not, the entry tile and the exit tile each
\* list exactly one direction with no real tile on that side, and no other
\* tile lists such a direction.
C4_OutwardOpenings ==
    Formed =>
        \A t \in Tiles :
            OutwardCount(mazeList, t) = (IF mazeList[t].is_entry = NoneRole THEN 0 ELSE 1)

C4_Witness ==
    /\ FormedIdle
    /\ HasLoop
    /\ \E t \in Tiles :
        /\ mazeList[t].is_entry = EntryRole
        /\ BagIn("E", mazeList[t].connectTo)
        /\ Step(t, "E") \notin Tiles
    /\ \E t \in Tiles : mazeList[t].is_entry = ExitRole /\ OutwardCount(mazeList, t) = 1

\* C5: on a formed maze a call of makeMazeSimple or makeMazeGrowTree raises
\* errorcode 3 and changes neither the tiles, their connections and roles,
\* nor the formed flag; no step on a formed maze starts a formation.
FormationCall ==
    \/ makeMazeSimple
    \/ \E w \in GrowWeights : makeMazeGrowTree(w[1], w[2])

C5_AlreadyFormed ==
    [][Formed =>
        /\ pc' \notin {"simple", "growtree"}
        /\ mazeIsDone'
        /\ FormationCall =>
              /\ ret'.kind = "MazeError"
              /\ ret'.errorcode = 3
              /\ UNCHANGED <<mazeList, mazeIsDone, pc>>]_vars

C5_Witness ==
    /\ FormedIdle
    /\ ret.kind = "MazeError"
    /\ ret.errorcode = 3
    /\ HasLoop

\* C6: on a maze on which no formation call has completed, makeMazeBraided,
\* get_maze_as_list, get_maze_with_distances, get_maze_detailed_info and
\* makePP each raise errorcode 4 and leave the maze unformed, with no tile
\* created or changed.
NeedsFormedCall ==
    \/ \E w \in BraidWeights : makeMazeBraided(w)
    \/ get_maze_as_list
    \/ get_maze_with_distances
    \/ get_maze_detailed_info
    \/ makePP

C6_NotFormed ==
    [][(~mazeIsDone /\ pc = "idle" /\ NeedsFormedCall) =>
        /\ ret'.kind = "MazeError"
        /\ ret'.errorcode = 4
        /\ UNCHANGED <<mazeList, mazeIsDone, pc>>]_vars

C6_Witness ==
    /\ ~mazeIsDone
    /\ pc = "idle"
    /\ mazeList = <<>>
    /\ ret.kind = "MazeError"
    /\ ret.errorcode = 4

\* C7: every step that changes the tiles of a formed maze (the steps of
\* makeMazeBraided, whatever the weight in -1..100) keeps every connection of
\* every tile and leaves the tile graph connected.
C7_BraidOnlyAdds ==
    [][(Formed /\ mazeList' # mazeList) =>
        /\ DOMAIN mazeList' = DOMAIN mazeList
        /\ \A t \in Tiles : mazeList[t].connectTo \sqsubseteq mazeList'[t].connectTo
        /\ IsConnected(mazeList')]_vars

C7_Witness ==
    /\ FormedIdle
    /\ ret.kind = "True"
    /\ Cardinality(EdgeSet(mazeList)) = TileCount + 1

\* C8: when makeMazeBraided(-1) returns on a maze with sizeX >= 2 and
\* sizeY >= 2, no tile has a connection set with exactly one member.
C8_NoSingleConnection ==
    [][(pc = "braid" /\ weightBraid = -1 /\ pc' = "idle" /\ sizeX >= 2 /\ sizeY >= 2) =>
        \A t \in Tiles : Cardinality(BagToSet(mazeList'[t].connectTo)) # 1]_vars

\* The dead-end pass is at its last tile and has added a connection.
C8_Witness ==
    /\ pc = "braid"
    /\ weightBraid = -1
    /\ tileIndex = TileCount - 1
    /\ sizeX >= 2 /\ sizeY >= 2
    /\ HasLoop
    /\ BagCardinality(mazeList[TileAt(tileIndex)].connectTo) = 1

\* C9: on a formed maze makeMazeBraided with an integer weight below -1 or
\* above 100 raises errorcode 1 and adds no connection.
C9_InvalidWeight ==
    [][(Formed /\ \E w \in BraidWeights : (w < -1 \/ w > 100) /\ makeMazeBraided(w)) =>
        /\ ret'.kind = "MazeError"
        /\ ret'.errorcode = 1
        /\ UNCHANGED <<mazeList, pc>>]_vars

C9_Witness ==
    /\ FormedIdle
    /\ ret.kind = "MazeError"
    /\ ret.errorcode = 1

\* C10: the symbolic grid of a formed maze has 2 * sizeY + 1 rows of
\* 2 * sizeX + 1 cells; the cell of tile (x, y), at column 2x + 1 and row
\* 2y + 1, is not a wall; the cell midway between two adjacent tiles is not a
\* wall exactly when one of the two lists the other; every cell whose row and
\* column are both even is a wall.
Linked(t, d) ==
    \/ BagIn(d, mazeList[t].connectTo)
    \/ BagIn(Opposite(d), mazeList[Step(t, d)].connectTo)

SymbolicGridOK(grid) ==
    /\ Len(grid) = 2 * sizeY + 1
    /\ \A r \in 1..Len(grid) : Len(grid[r]) = 2 * sizeX + 1
    /\ \A t \in Tiles : Cell(grid, 2 * t[1] + 1, 2 * t[2] + 1) # "#"
    /\ \A t \in Tiles :
          /\ Step(t, "E") \in Tiles =>
                (Cell(grid, 2 * t[1] + 2, 2 * t[2] + 1) # "#" <=> Linked(t, "E"))
          /\ Step(t, "S") \in Tiles =>
                (Cell(grid, 2 * t[1] + 1, 2 * t[2] + 2) # "#" <=> Linked(t, "S"))
    /\ \A x \in 0..sizeX : \A y \in 0..sizeY : Cell(grid, 2 * x, 2 * y) = "#"

C10_SymbolicGrid ==
    (pc = "idle" /\ ret.kind = "list") => SymbolicGridOK(ret.grid)

C10_Witness ==
    /\ pc = "idle"
    /\ ret.kind = "list"
    /\ sizeX = 2 /\ sizeY = 3
    /\ HasLoop
    /\ \E t \in Tiles : Step(t, "E") \in Tiles /\ ~Linked(t, "E")

\* C11: on a formed maze, braided or not, the distance grid and the detailed
\* grid have the rows and columns of the symbolic grid, and a cell is '#' in
\* the symbolic grid exactly when it is '#' in the distance grid and exactly
\* when its 'index' is '#' in the detailed grid.
SameShape(g, h) ==
    /\ Len(g) = Len(h)
    /\ \A r \in 1..Len(g) : Len(g[r]) = Len(h[r])

C11_WallsAgree ==
    /\ (pc = "idle" /\ ret.kind = "distances") =>
          /\ SameShape(ret.grid, maze_as_list)
          /\ \A r \in 1..Len(ret.grid) : \A c \in 1..Len(ret.grid[r]) :
                (ret.grid[r][c] = StrCell("#")) <=> (maze_as_list[r][c] = "#")
    /\ (pc = "idle" /\ ret.kind = "detailed") =>
          /\ SameShape(ret.grid, maze_as_list)
          /\ \A r \in 1..Len(ret.grid) : \A c \in 1..Len(ret.grid[r]) :
                (ret.grid[r][c].index = "#") <=> (maze_as_list[r][c] = "#")

C11_Witness ==
    /\ pc = "idle"
    /\ ret.kind = "detailed"
    /\ sizeX = 2 /\ sizeY = 3
    /\ HasLoop
    /\ \E t \in Tiles : Step(t, "S") \in Tiles /\ ~Linked(t, "S")
    /\ \E t \in Tiles : Step(t, "S") \in Tiles /\ Linked(t, "S")

\* C12: a generate_maze call in mode "list" that repeats the width, height,
\* algorithm, algorithm settings, start_wall, end_wall and the explicit seed
\* of the first completed call of the process returns the grid that call
\* returned, whatever the generator was left at in between.
C12_Determinism ==
    (/\ firstRun # NoRun
     /\ genCall.stage = "returned"
     /\ genCall.mode = "list"
     /\ genCall.seed # <<>>
     /\ SameArguments(genCall, firstRun.call)
     /\ genCall.seed = firstRun.call.seed) => ret = firstRun.ret

\* The second call has returned; the generator was not at the seed's state
\* when it started, the first run having advanced it.
C12_Witness ==
    /\ firstRun # NoRun
    /\ genCall.stage = "returned"
    /\ genCall.calls = 2
    /\ genCall.mode = "list"
    /\ genCall.algorithm = "braided"
    /\ genCall.width = 3 /\ genCall.height = 3
    /\ genCall.seed = <<1>>
    /\ firstRun.call.seed = <<1>>
    /\ ret.kind = "list"
    /\ rndState # rnd_seed(1)

\* C13: in the distance grid of a formed maze, braided or not, the cell that
\* is 'S' in the symbolic grid holds 0, every cell holding d >= 1 has an
\* orthogonal neighbour holding d - 1, and two orthogonal neighbours that
\* both hold numbers differ by exactly 1.
IsInt(grid, q) ==
    /\ q[1] \in 0..(Len(grid[1]) - 1)
    /\ q[2] \in 0..(Len(grid) - 1)
    /\ Cell(grid, q[1], q[2]).isInt

DistancesOK(grid) ==
    /\ \A q \in Positions(maze_as_list, {"S"}) : Cell(grid, q[1], q[2]) = IntCell(0)
    /\ \A x \in 0..(Len(grid[1]) - 1) : \A y \in 0..(Len(grid) - 1) :
          IsInt(grid, <<x, y>>) =>
            LET d == Cell(grid, x, y).int
                Near == {q \in Range(Offsets(<<x, y>>)) : IsInt(grid, q)}
            IN  /\ d >= 1 => \E q \in Near : Cell(grid, q[1], q[2]).int = d - 1
                /\ \A q \in Near : Cell(grid, q[1], q[2]).int \in {d - 1, d + 1}

C13_DistanceSteps ==
    (pc = "idle" /\ ret.kind = "distances") => DistancesOK(ret.grid)

C13_Witness ==
    /\ pc = "idle"
    /\ ret.kind = "distances"
    /\ HasLoop
    /\ sizeX = 2 /\ sizeY = 3
    /\ \E r \in 1..Len(ret.grid) : \E c \in 1..Len(ret.grid[r]) :
          ret.grid[r][c].isInt /\ ret.grid[r][c].int >= 6

\* C14: for every size and every start_wall and end_wall, a formation call
\* that has started eventually returns with the maze formed, the draws being
\* fair.
C14_FormationReturns ==
    (pc \in {"simple", "growtree"}) ~> (pc = "idle" /\ mazeIsDone)

\* C15: the symbolic grid of a formed maze, braided or not, has exactly one
\* 'S' cell and exactly one 'E' cell, both on the outer border of the grid,
\* and every other border cell, the four corners included, is '#'.
BorderCells(grid) ==
    {q \in (0..(Len(grid[1]) - 1)) \X (0..(Len(grid) - 1)) : OnBorder(grid, q)}

OneStartOneEnd(grid) ==
    /\ Cardinality(Positions(grid, {"S"})) = 1
    /\ Cardinality(Positions(grid, {"E"})) = 1
    /\ Positions(grid, {"S", "E"}) \subseteq BorderCells(grid)
    /\ \A q \in BorderCells(grid) \ Positions(grid, {"S", "E"}) :
          Cell(grid, q[1], q[2]) = "#"

C15_BorderCells ==
    (pc = "idle" /\ ret.kind = "list") => OneStartOneEnd(ret.grid)

\* A braided maze whose entry and exit open on the same wall.
C15_Witness ==
    /\ pc = "idle"
    /\ ret.kind = "list"
    /\ HasLoop
    /\ sizeX = 2 /\ sizeY = 3
    /\ Cell(ret.grid, 1, 0) = "S"
    /\ Cell(ret.grid, 3, 0) = "E"

\* C16: generate_maze of a 3x3 maze by growing-tree, called with
\* weightHigh = 100 and weightLow = 0 and the default walls, returns for
\* every seed a symbolic grid of 7 rows of 7 cells whose corners are '#' and
\* in which 'S' and 'E' lie on two different borders, each of the two
\* borders holding one opening.
GrowTreeScenario ==
    /\ genCall.stage = "returned"
    /\ genCall.algorithm = "growing_tree"
    /\ genCall.mode = "list"
    /\ genCall.width = 3 /\ genCall.height = 3
    /\ genCall.start_wall = "Any" /\ genCall.end_wall = "Any"
    /\ weightHigh = 100 /\ weightLow = 0
    /\ ret.kind = "list"

\* The borders (N, S, W, E) on which the grid has a cell with the symbol.
BordersOf(grid, symbol) ==
    {b \in {"N", "S", "W", "E"} :
        \E q \in Positions(grid, {symbol}) :
            \/ b = "N" /\ q[2] = 0
            \/ b = "S" /\ q[2] = Len(grid) - 1
            \/ b = "W" /\ q[1] = 0
            \/ b = "E" /\ q[1] = Len(grid[1]) - 1}

SevenBySeven(grid) ==
    /\ Len(grid) = 7
    /\ \A r \in 1..7 : Len(grid[r]) = 7
    /\ \A x \in {0, 6} : \A y \in {0, 6} : Cell(grid, x, y) = "#"

C16_DistinctBorders ==
    GrowTreeScenario =>
        /\ SevenBySeven(ret.grid)
        /\ OneStartOneEnd(ret.grid)
        /\ BordersOf(ret.grid, "S") \cap BordersOf(ret.grid, "E") = {}

\* C16 as amended: the same call returns for every seed a symbolic grid of
\* 7 rows of 7 cells whose corners are '#' and which has one 'S' and one
\* 'E', both on the outer border, on the same border or on two, every other
\* border cell being '#'.
C16_Scenario ==
    GrowTreeScenario =>
        /\ SevenBySeven(ret.grid)
        /\ OneStartOneEnd(ret.grid)

\* The call has returned a grid with 'S' and 'E' on the same border.
C16_Witness ==
    /\ GrowTreeScenario
    /\ genCall.seed # <<>>
    /\ BordersOf(ret.grid, "S") = BordersOf(ret.grid, "E")

\* C17: in generate_maze, the weights passed to makeMazeGrowTree and
\* makeMazeBraided are the values algorithm_settings gives under the keys
\* weightHigh, weightLow and weightBraid, and 99, 97 and -1 for the keys it
\* does not give.
GivenOr(algorithm_settings, key, default) ==
    IF key \in DOMAIN algorithm_settings
    THEN algorithm_settings[key]
    ELSE default

C17_SettingsPassed ==
    (/\ genCall.stage \in {"mode", "returned"}
     /\ genCall.algorithm \in {"growing_tree", "braided"}) =>
        /\ weightHigh = GivenOr(genCall.algorithm_settings, "weightHigh", 99)
        /\ weightLow = GivenOr(genCall.algorithm_settings, "weightLow", 97)
        /\ genCall.algorithm = "braided" =>
               weightBraid = GivenOr(genCall.algorithm_settings, "weightBraid", -1)

\* C18: makeMazeGrowTree called on an unformed maze with weightHigh or
\* weightLow outside 0..100 raises the MazeError with errorcode 1 and leaves
\* the maze unformed.
C18_WeightsChecked ==
    [][\A w \in GrowWeights :
          (/\ ~mazeIsDone
           /\ w[1] \notin 0..100 \/ w[2] \notin 0..100
           /\ makeMazeGrowTree(w[1], w[2])) =>
              /\ ret' = MazeError(1)
              /\ pc' = "idle"
              /\ ~mazeIsDone']_vars

\* C19: on a formed maze, braided or not, get_maze_with_distances and
\* get_maze_detailed_info do not raise the MazeError with errorcode 5: the
\* grid they return has the distance 0 on the cell of the entry opening.
StartLocated(kind, grid) ==
    \A q \in Positions(maze_as_list, {"S"}) :
        IF kind = "distances"
        THEN Cell(grid, q[1], q[2]) = IntCell(0)
        ELSE /\ Cell(grid, q[1], q[2]).index = "S"
             /\ Cell(grid, q[1], q[2]).distance = <<0>>

C19_StartFound ==
    (pc = "idle" /\ mazeIsDone) =>
        /\ ret.errorcode # 5
        /\ ret.kind \in {"distances", "detailed"} => StartLocated(ret.kind, ret.grid)

\* A distance grid has been returned for a maze whose entry opens on the
\* south border or on the middle of the west border.
C19_Witness ==
    /\ pc = "idle"
    /\ mazeIsDone
    /\ ret.kind = "distances"
    /\ sizeX = 2 /\ sizeY = 3
    /\ \E q \in Positions(maze_as_list, {"S"}) : q[2] = 6 \/ (q[1] = 0 /\ q[2] = 3)

\* C20: no cell of a returned distance grid or detailed grid carries -1:
\* every cell that is not a wall (and, in the distance grid, not 'E')
\* carries a distance from the start of 0 or more.
NoneUnreached(kind, grid) ==
    \A r \in 1..Len(grid) : \A c \in 1..Len(grid[r]) :
        IF kind = "distances"
        THEN IF grid[r][c].isInt
             THEN grid[r][c].int >= 0
             ELSE grid[r][c].str \in {"#", "E"}
        ELSE IF grid[r][c].index = "#"
             THEN grid[r][c].distance = <<>>
             ELSE /\ grid[r][c].distance # <<>>
                  /\ grid[r][c].distance[1] >= 0

C20_AllReached ==
    (pc = "idle" /\ ret.kind \in {"distances", "detailed"}) =>
        NoneUnreached(ret.kind, ret.grid)

\* A detailed grid of a braided maze of six tiles whose exit opening is four
\* or more steps from the start.
C20_Witness ==
    /\ pc = "idle"
    /\ ret.kind = "detailed"
    /\ HasLoop
    /\ sizeX = 2 /\ sizeY = 3
    /\ \E q \in Positions(maze_as_list, {"E"}) :
          /\ Cell(ret.grid, q[1], q[2]).index = "E"
          /\ Cell(ret.grid, q[1], q[2]).distance # <<>>
          /\ Cell(ret.grid, q[1], q[2]).distance[1] >= 4

\* C21: for every size, get_wall_tiles("Any") lists every tile of the outer
\* edge once and no other tile, and get_wall_tiles of "N", "S", "W" or "E"
\* lists the tiles of that edge, each once.
EdgeTiles(wall) ==
    CASE wall = "N" -> {t \in DOMAIN NewMazeList : t[2] = 0}
      [] wall = "S" -> {t \in DOMAIN NewMazeList : t[2] = sizeY - 1}
      [] wall = "W" -> {t \in DOMAIN NewMazeList : t[1] = 0}
      [] wall = "E" -> {t \in DOMAIN NewMazeList : t[1] = sizeX - 1}
      [] OTHER -> {t \in DOMAIN NewMazeList : t[1] \in {0, sizeX - 1} \/ t[2] \in {0, sizeY - 1}}

ListsEachOnce(seq, S) ==
    /\ Range(seq) = S
    /\ Len(seq) = Cardinality(S)

C21_WallTiles ==
    \A wall \in Walls : ListsEachOnce(get_wall_tiles(wall), EdgeTiles(wall))

\* C22: in makeMazeGrowTree with weightHigh = weightLow = 0, an iteration of
\* the loop selects choiceList[0], the tile appended longest ago, for every
\* draw of rnd.random() * 100, the draw 0 included.
C22_OldestFirst ==
    (/\ pc = "growtree"
     /\ weightHigh = 0 /\ weightLow = 0
     /\ choiceList # <<>>) =>
        \A d \in Draws : NextTileChoices(d) = {choiceList[1]}

\* C23: in makeMazeBraided with a weightBraid of 0..100, a tile is given the
\* attempt of one more connection exactly for the draws of rnd.random() * 100
\* below weightBraid; with weightBraid = 0 no iteration of the loop changes a
\* connection, whatever is drawn.
C23_StrictDraw ==
    [][(pc = "braid" /\ weightBraid \in 0..100) =>
          /\ \A d \in Draws : BraidDraw(weightBraid, d) <=> d < 2 * weightBraid
          /\ weightBraid = 0 => mazeList' = mazeList]_vars

\* C24: the step that places entry and exit appends one direction to the
\* entry tile and one to the exit tile and none to another tile: "N" for a
\* tile of row 0, else "S" for a tile of the last row, else "W" for a tile
\* of column 0, else "E"; a corner tile is given "N" or "S".
RowsFirst(t) ==
    IF t[2] = 0 THEN "N"
    ELSE IF t[2] = sizeY - 1 THEN "S"
    ELSE IF t[1] = 0 THEN "W"
    ELSE "E"

IsCorner(t) == t[1] \in {0, sizeX - 1} /\ t[2] \in {0, sizeY - 1}

C24_RowsBeforeColumns ==
    [][(~mazeIsDone /\ mazeIsDone') =>
          \A t \in Tiles :
              IF mazeList'[t].is_entry = NoneRole
              THEN mazeList'[t].connectTo = mazeList[t].connectTo
              ELSE /\ mazeList'[t].connectTo =
                         mazeList[t].connectTo (+) SetToBag({RowsFirst(t)})
                   /\ IsCorner(t) =>
                         \E d \in {"N", "S"} :
                             mazeList'[t].connectTo = mazeList[t].connectTo (+) SetToBag({d})]_vars

\* A formed maze of two columns and three rows with start_wall "W" and
\* end_wall "E" whose entry is the corner tile <<0, 2>>, opened to the south,
\* and whose exit is the tile <<1, 1>>, opened to the east.
C24_Witness ==
    /\ mazeIsDone
    /\ sizeX = 2 /\ sizeY = 3
    /\ start_wall = "W" /\ end_wall = "E"
    /\ mazeList[<<0, 2>>].is_entry = EntryRole
    /\ BagIn("S", mazeList[<<0, 2>>].connectTo)
    /\ ~BagIn("W", mazeList[<<0, 2>>].connectTo)
    /\ mazeList[<<1, 1>>].is_entry = ExitRole
    /\ BagIn("E", mazeList[<<1, 1>>].connectTo)

\* C25: when start_wall (end_wall) is "N", "S", "W" or "E", the 'S' ('E')
\* cell of the returned symbolic grid is on that side of the grid's border:
\* row 0, the last row, column 0 or the last column.
OnSide(grid, wall, q) ==
    CASE wall = "N" -> q[2] = 0
      [] wall = "S" -> q[2] = Len(grid) - 1
      [] wall = "W" -> q[1] = 0
      [] wall = "E" -> q[1] = Len(grid[1]) - 1
      [] OTHER -> TRUE

C25_OpeningOnWall ==
    (pc = "idle" /\ ret.kind = "list") =>
        /\ \A q \in Positions(ret.grid, {"S"}) : OnSide(ret.grid, start_wall, q)
        /\ \A q \in Positions(ret.grid, {"E"}) : OnSide(ret.grid, end_wall, q)

\* C26: __connectTilesWithString(tile, D) raises errorcode 2 exactly when
\* there is no tile on side D of the tile, and the attempt then leaves every
\* connection list as it was; when it returns, the tile's list has one more
\* D, the neighbour's list one more of the opposite direction, and no other
\* list and no other field of a tile has changed.
DirectedConnectOK(ml, tile, D) ==
    IF connectRaises(tile, D)
    THEN /\ Step(tile, D) \notin DOMAIN ml
         /\ TryDirections(ml, tile, <<D>>) = ml
    ELSE LET neighbour == Step(tile, D)
             after == connectTilesWithString(ml, tile, D)
         IN  /\ neighbour \in DOMAIN ml
             /\ DOMAIN after = DOMAIN ml
             /\ after[tile] =
                   [ml[tile] EXCEPT !.connectTo = @ (+) SetToBag({D})]
             /\ after[neighbour] =
                   [ml[neighbour] EXCEPT !.connectTo = @ (+) SetToBag({Opposite(D)})]
             /\ \A t \in DOMAIN ml \ {tile, neighbour} : after[t] = ml[t]

C26_DirectedConnect ==
    \A tile \in Tiles : \A D \in Range(AllDirections) :
        DirectedConnectOK(mazeList, tile, D)

\* A maze of two columns and two rows during makeMazeBraided(100), after
\* the loop has passed three tiles, in which every pair of neighbouring
\* tiles is connected: a directed connect has added a connection, and the
\* attempts across the border have failed.
C26_Witness ==
    /\ pc = "braid"
    /\ sizeX = 2 /\ sizeY = 2
    /\ weightBraid = 100
    /\ tileIndex = 3
    /\ Cardinality(EdgeSet(mazeList)) = 4

\* C27: in every state after a formation call and any number of calls of
\* makeMazeBraided, during the calls as well, no tile's connectTo holds a
\* direction twice.
C27_NoDuplicateDirection ==
    \A t \in Tiles : \A d \in Range(AllDirections) :
        CopiesIn(d, mazeList[t].connectTo) <= 1

\* A braided maze of two columns and three rows with a tile that lists all
\* four directions: its three neighbours and its outward opening.
C27_Witness ==
    /\ pc = "idle"
    /\ mazeIsDone
    /\ sizeX = 2 /\ sizeY = 3
    /\ \E t \in Tiles : BagCardinality(mazeList[t].connectTo) = 4

\* C28: on a formed maze, for every pair of tiles, __calculate_distance
\* returns the number of connections of a shortest path between them over
\* the tiles of the grid; it raises nothing and reads no position outside
\* the grid.
\* The tiles at most n connections from the tiles of S.
RECURSIVE Within(_, _, _)
Within(ml, S, n) ==
    IF n = 0 THEN S
    ELSE Within(ml, S \cup UNION {ListedNeighbours(ml, t) : t \in S}, n - 1)

ShortestPath(ml, a, b) ==
    CHOOSE n \in 0..Cardinality(DOMAIN ml) :
        /\ b \in Within(ml, {a}, n)
        /\ \A k \in 0..(n - 1) : b \notin Within(ml, {a}, k)

C28_TileDistance ==
    (pc = "idle" /\ mazeIsDone) =>
        \A a \in Tiles : \A b \in Tiles :
            calculate_distance(a, b) = DistanceReturn(ShortestPath(mazeList, a, b))

\* C29: the maze a formation call of A produces is the one A's own seed,
\* size, walls and weights give, whatever Maze objects were constructed
\* between A's construction and the call.
OwnMaze ==
    LET own == rnd_seed(genCall.seed[1])
    IN  IF genCall.algorithm = "simple" THEN RunSimple(own).ml
        ELSE RunGrowTree(99, 97, own).ml

C29_OwnSeed ==
    genCall.stage = "formed" => mazeList = OwnMaze

\* C30: when makeMazeBraided(-1) returns on a maze of two or more columns
\* and two or more rows, every tile, the entry tile and the exit tile
\* included, is connected to two or more tiles of the grid.
C30_NoDeadEnd ==
    [][(/\ pc = "braid" /\ weightBraid = -1
        /\ pc' = "idle"
        /\ sizeX >= 2 /\ sizeY >= 2) =>
          \A t \in Tiles : Cardinality(ListedNeighbours(mazeList', t)) >= 2]_vars

====
